---------------------------- MODULE Spec2Model ----------------------------
(***************************************************************************)
(* Sen2Grass: Sentinel-2 harvesting, vegetation indices, mosaics and       *)
(* parcel statistics (main.py and py_modules/*.py).                        *)
(*                                                                         *)
(* The specifications share the variables of this module:                  *)
(*   Spec        run_task: the date loop, the tile loop, the scratch       *)
(*               directory ./data, the mosaic, parcel and purge steps;     *)
(*   SpecPixel   calc_veg_indices on one pixel: mask, reflectance scaling, *)
(*               the four index formulas, the outlier/no-data clamp;       *)
(*   SpecParcel  calc_zonal_stats' cloud-cover percentage and              *)
(*               upload_parcels_df's filter and append, on parcel sets;    *)
(*   SpecWriter  calc_veg_indices on a directory that already holds some   *)
(*               of the index rasters it is about to write;                *)
(*   SpecRaster  mosaic_veg_indices on the pixels of the tile rasters of   *)
(*               one index and date;                                       *)
(*   SpecZonal   zonal_stats on the pixels of the composite.               *)
(*                                                                         *)
(* Floating-point values are modelled as IEEE special values (not-a-       *)
(* number, +infinity, -infinity) or exact rationals n/d with d > 0, kept   *)
(* in lowest terms.  Rounding of float32/float64 is not modelled.          *)
(***************************************************************************)
EXTENDS Integers, Sequences, FiniteSets, TLC

VARIABLES
    \* ---- run_task (Spec) ----
    pc,                 \* position in run_task
    i,                  \* index of the date loop (main.py:114)
    j,                  \* index of the tile loop (main.py:125)
    data,               \* ./data: function from file name to content
    cwd,                \* names of the files in the working directory
    time_stamp,         \* run_task's local time_stamp ("unbound" before line 153)
    tile_id,            \* run_task's local tile_id ("unbound" before line 153)
    calc_parcel_stats,  \* argument of run_task
    error,              \* the exception that ended the run, "none" otherwise
    trace,              \* the steps run so far for the current date (log)
    table,              \* rows appended to the persistent table
    \* ---- calc_veg_indices on one pixel (SpecPixel) ----
    ppc,                \* position in calc_veg_indices
    dn,                 \* the pixel's raw value in each band file
    s2_dict,            \* band name -> value (raster_calculations.py:29)
    veg_ind_dict,       \* index name -> value (raster_calculations.py:74)
    veg_ind_ras,        \* index name -> value handed to the writer
    \* ---- parcel aggregation (SpecParcel, and the parcel step of Spec) ----
    qpc,                \* position in the parcel aggregation
    parcels,            \* the selected parcels with their zonal counts
    cloud_cover_perc,   \* the threshold (main.py:71)
    parcel_stats,       \* the cloud-cover column of calc_zonal_stats
    parcels_new_df,     \* the table returned by upload_parcels_df
    \* ---- one index of one date as rasters (SpecRaster) ----
    rpc,                \* position: tile rasters, composite, zonal statistics
    tile_ras,           \* tile -> pixel -> value of the tile's index raster
    in_files,           \* the tile rasters in the order the glob lists them
    composite,          \* pixel -> value of the composite raster
    zone,               \* the pixels whose centre lies inside the parcel
    zone_stats          \* what zonal_stats returns for the parcel

runVars    == <<pc, i, j, data, cwd, time_stamp, tile_id, calc_parcel_stats,
                error, trace>>
pixelVars  == <<ppc, dn, s2_dict, veg_ind_dict, veg_ind_ras>>
parcelVars == <<qpc, parcels, cloud_cover_perc, parcel_stats, parcels_new_df>>
rasterVars == <<rpc, tile_ras, in_files, composite, zone, zone_stats>>
vars       == <<runVars, pixelVars, parcelVars, table, rasterVars>>

-----------------------------------------------------------------------------
(***************************************************************************)
(* Floating-point values.                                                  *)
(***************************************************************************)
NaN    == [k |-> "nan",  n |-> 0, d |-> 1]
PosInf == [k |-> "inf",  n |-> 0, d |-> 1]
NegInf == [k |-> "ninf", n |-> 0, d |-> 1]

Abs(x) == IF x < 0 THEN -x ELSE x

RECURSIVE GCD(_, _)
GCD(a, b) == IF b = 0 THEN a ELSE GCD(b, a % b)

\* the rational n/d, d # 0, in lowest terms with a positive denominator
Num(n, d) ==
    LET g == GCD(Abs(n), Abs(d))
        s == IF d < 0 THEN -1 ELSE 1
    IN  [k |-> "num", n |-> s * (n \div g), d |-> s * (d \div g)]

Whole(n) == Num(n, 1)

IsNaN(x)    == x.k = "nan"
IsInf(x)    == x.k \in {"inf", "ninf"}
IsFinite(x) == x.k = "num"

\* sign of a value that is not NaN: -1, 0, 1
Sign(x) ==
    CASE x.k = "inf"  -> 1
      [] x.k = "ninf" -> -1
      [] OTHER        -> IF x.n > 0 THEN 1 ELSE IF x.n < 0 THEN -1 ELSE 0

\* comparisons: every comparison with not-a-number is false
Less(x, y) ==
    CASE IsNaN(x) \/ IsNaN(y)           -> FALSE
      [] x.k = "ninf"                   -> y.k # "ninf"
      [] x.k = "inf"                    -> FALSE
      [] y.k = "inf"                    -> TRUE
      [] y.k = "ninf"                   -> FALSE
      [] OTHER                          -> x.n * y.d < y.n * x.d
Greater(x, y)   == Less(y, x)
Equal(x, y)     == ~IsNaN(x) /\ ~IsNaN(y) /\ x = y
LessEq(x, y)    == Less(x, y) \/ Equal(x, y)
GreaterEq(x, y) == LessEq(y, x)

Neg(x) ==
    CASE x.k = "nan"  -> NaN
      [] x.k = "inf"  -> NegInf
      [] x.k = "ninf" -> PosInf
      [] OTHER        -> Num(-x.n, x.d)

Add(x, y) ==
    CASE IsNaN(x) \/ IsNaN(y)       -> NaN
      [] IsInf(x) /\ IsInf(y)       -> IF x = y THEN x ELSE NaN
      [] IsInf(x)                   -> x
      [] IsInf(y)                   -> y
      [] OTHER                      -> Num(x.n * y.d + y.n * x.d, x.d * y.d)

Sub(x, y) == Add(x, Neg(y))

Mul(x, y) ==
    CASE IsNaN(x) \/ IsNaN(y)       -> NaN
      [] IsInf(x) \/ IsInf(y)       ->
            IF Sign(x) * Sign(y) = 0 THEN NaN
            ELSE IF Sign(x) * Sign(y) > 0 THEN PosInf ELSE NegInf
      [] OTHER                      -> Num(x.n * y.n, x.d * y.d)

\* numpy/pandas true division with errors ignored: 0/0 is not-a-number,
\* x/0 is an infinity with the sign of x, and no exception is raised
DivMutant(x, y) ==
    CASE IsNaN(x) \/ IsNaN(y)       -> NaN
      [] IsInf(x) /\ IsInf(y)       -> NaN
      [] IsInf(x)                   -> IF Sign(y) < 0 THEN Neg(x) ELSE x
      [] IsInf(y)                   -> Whole(0)
      [] y.n = 0                    -> NaN
      [] OTHER                      -> Num(x.n * y.d, x.d * y.n)
Div(x, y) ==
    CASE IsNaN(x) \/ IsNaN(y)       -> NaN
      [] IsInf(x) /\ IsInf(y)       -> NaN
      [] IsInf(x)                   -> IF Sign(y) < 0 THEN Neg(x) ELSE x
      [] IsInf(y)                   -> Whole(0)
      [] y.n = 0                    ->
            IF x.n = 0 THEN NaN ELSE IF x.n > 0 THEN PosInf ELSE NegInf
      [] OTHER                      -> Num(x.n * y.d, x.d * y.n)

-----------------------------------------------------------------------------
(***************************************************************************)
(* calc_veg_indices on one pixel (raster_calculations.py:7-139).           *)
(***************************************************************************)
band_names  == <<"scene_class", "surf_refl_665nm", "surf_refl_705nm",
                 "surf_refl_783nm", "surf_refl_865nm">>
veg_indices == <<"ndvi", "wdvi", "ndre", "ci_red_edge">>

BandSet      == {band_names[b] : b \in 1..Len(band_names)}
OpticalBands == BandSet \ {"scene_class"}
IndexSet     == {veg_indices[v] : v \in 1..Len(veg_indices)}

QuantificationValue == 10000
NoDataMagnitude     == 9999
NoData              == Whole(-NoDataMagnitude)

\* first assignment of the mask: cloud-like classes become not-a-number
MaskNaNMutant(x) ==
    IF Less(x, Whole(1)) \/ (GreaterEq(x, Whole(7)) /\ Less(x, Whole(10)))
    THEN NaN ELSE x
MaskNaN(x) ==
    IF Less(x, Whole(1)) \/ (Greater(x, Whole(7)) /\ Less(x, Whole(10)))
    THEN NaN ELSE x

\* second assignment of the mask, on the array the first one left
MaskOne(x) ==
    IF GreaterEq(x, Whole(10))
       \/ (GreaterEq(x, Whole(1)) /\ LessEq(x, Whole(7)))
    THEN Whole(1) ELSE x

SceneClassMask(x) == MaskOne(MaskNaN(x))

\* digital number -> reflectance, then masked
ReflectanceMutant(x, mask) == Div(x, Whole(QuantificationValue))
Reflectance(x, mask) == Mul(Div(x, Whole(QuantificationValue)), mask)

Ndvi(s) == Div(Sub(s["surf_refl_865nm"], s["surf_refl_665nm"]),
               Add(s["surf_refl_865nm"], s["surf_refl_665nm"]))
Wdvi(s) == Sub(s["surf_refl_865nm"], Mul(Num(18, 10), s["surf_refl_665nm"]))
Ndre(s) == Div(Sub(s["surf_refl_865nm"], s["surf_refl_705nm"]),
               Add(s["surf_refl_865nm"], s["surf_refl_705nm"]))
CiRedEdge(s) == Sub(Div(s["surf_refl_783nm"], s["surf_refl_705nm"]), Whole(1))

VegIndices(s) ==
    [v \in IndexSet |->
        CASE v = "ndvi" -> Ndvi(s)
          [] v = "wdvi" -> Wdvi(s)
          [] v = "ndre" -> Ndre(s)
          [] OTHER      -> CiRedEdge(s)]

\* the denominator of the indices that divide
Denominator(v, s) ==
    CASE v = "ndvi" -> Add(s["surf_refl_865nm"], s["surf_refl_665nm"])
      [] v = "ndre" -> Add(s["surf_refl_865nm"], s["surf_refl_705nm"])
      [] OTHER      -> s["surf_refl_705nm"]
Numerator(v, s) ==
    CASE v = "ndvi" -> Sub(s["surf_refl_865nm"], s["surf_refl_665nm"])
      [] v = "ndre" -> Sub(s["surf_refl_865nm"], s["surf_refl_705nm"])
      [] OTHER      -> s["surf_refl_783nm"]

\* outliers, then not-a-number, become the no-data value
RemoveOutliersMutant(x) ==
    LET y == IF Less(x, Whole(-10)) \/ GreaterEq(x, Whole(10))
             THEN NoData ELSE x
    IN  IF IsNaN(y) THEN NoData ELSE y
RemoveOutliers(x) ==
    LET y == IF Less(x, Whole(-10)) \/ Greater(x, Whole(10))
             THEN NoData ELSE x
    IN  IF IsNaN(y) THEN NoData ELSE y

MaxSceneClass  == 12
SceneClasses   == (-1)..MaxSceneClass
DigitalNumbers == {0, 1, 11, 60000}

NoPixel == [b \in {} |-> NaN]

PixelIdle ==
    /\ ppc = "idle" /\ dn = NoPixel /\ s2_dict = NoPixel
    /\ veg_ind_dict = NoPixel /\ veg_ind_ras = NoPixel

\* lines 36-39: the band files are read as float arrays
PixelInit ==
    /\ ppc = "read"
    /\ dn \in [BandSet -> SceneClasses \cup DigitalNumbers]
    /\ dn["scene_class"] \in SceneClasses
    /\ \A b \in OpticalBands : dn[b] \in DigitalNumbers
    /\ s2_dict = [b \in BandSet |-> Whole(dn[b])]
    /\ veg_ind_dict = NoPixel
    /\ veg_ind_ras = NoPixel

\* lines 42-56
MaskSceneClass ==
    /\ ppc = "read"
    /\ s2_dict' = [s2_dict EXCEPT
                     !["scene_class"] = SceneClassMask(s2_dict["scene_class"])]
    /\ ppc' = "masked"
    /\ UNCHANGED <<dn, veg_ind_dict, veg_ind_ras>>
    /\ UNCHANGED <<runVars, parcelVars, table>>
    /\ UNCHANGED rasterVars

\* lines 59-67, for the four optical bands
ScaleOpticalBands ==
    /\ ppc = "masked"
    /\ s2_dict' = [b \in BandSet |->
                     IF b = "scene_class" THEN s2_dict[b]
                     ELSE Reflectance(s2_dict[b], s2_dict["scene_class"])]
    /\ ppc' = "scaled"
    /\ UNCHANGED <<dn, veg_ind_dict, veg_ind_ras>>
    /\ UNCHANGED <<runVars, parcelVars, table>>
    /\ UNCHANGED rasterVars

\* lines 76-94; s2_dict, which the code drops at line 97, is kept so that
\* the properties below can name the operands of the divisions
CalcIndices ==
    /\ ppc = "scaled"
    /\ veg_ind_dict' = VegIndices(s2_dict)
    /\ ppc' = "indices"
    /\ UNCHANGED <<dn, s2_dict, veg_ind_ras>>
    /\ UNCHANGED <<runVars, parcelVars, table>>
    /\ UNCHANGED rasterVars

\* lines 100-108; veg_ind_dict keeps the value before the clamp
ClampIndices ==
    /\ ppc = "indices"
    /\ veg_ind_ras' = [v \in IndexSet |-> RemoveOutliers(veg_ind_dict[v])]
    /\ ppc' = "write"
    /\ UNCHANGED <<dn, s2_dict, veg_ind_dict>>
    /\ UNCHANGED <<runVars, parcelVars, table>>
    /\ UNCHANGED rasterVars

PixelNext ==
    \/ MaskSceneClass
    \/ ScaleOpticalBands
    \/ CalcIndices
    \/ ClampIndices

-----------------------------------------------------------------------------
(***************************************************************************)
(* Parcel aggregation (parcel_calculations.py).  A parcel carries the      *)
(* zonal counts that zonal_stats returns for it on the first index:        *)
(* count (valid pixels) and nan (no-data pixels).                          *)
(***************************************************************************)
MaxParcels == 2
MaxPixels  == 2
CloudCoverPerc == 90

ZonalCounts == [count : 0..MaxPixels, nan : 0..MaxPixels]

\* parcel sets of 1..MaxParcels parcels, ids 1, 2, ... in query order
ParcelsOfLen(len) ==
    {[p \in 1..len |-> [id |-> p, count |-> c[p].count, nan |-> c[p].nan]] :
        c \in [1..len -> ZonalCounts]}
ParcelSets == UNION {ParcelsOfLen(len) : len \in 1..MaxParcels}

Thresholds == {0, 50, CloudCoverPerc, 100}

\* parcel_calculations.py:87-88: nan / (count + nan) * 100
CloudCoverMutant(count, nan) ==
    Mul(Div(Whole(nan), Whole(count + nan + 1)), Whole(100))
CloudCover(count, nan) ==
    Mul(Div(Whole(nan), Whole(count + nan)), Whole(100))

\* parcel_calculations.py:135-136: the rows that are dropped
DroppedMutant(cc, threshold) == Greater(cc, Whole(threshold))
Dropped(cc, threshold) == GreaterEq(cc, Whole(threshold))

\* parcel_calculations.py:119-132: one row per parcel
Rows(ps, stats, ts, tid) ==
    [p \in 1..Len(ps) |->
        [id |-> ps[p].id, tile_id |-> tid, time_stamp |-> ts,
         cloud_cover_perc |-> stats[p]]]

RECURSIVE Filter(_, _)
Filter(rows, threshold) ==
    IF rows = <<>> THEN <<>>
    ELSE IF Dropped(Head(rows).cloud_cover_perc, threshold)
         THEN Filter(Tail(rows), threshold)
         ELSE <<Head(rows)>> \o Filter(Tail(rows), threshold)

ParcelIdle ==
    /\ qpc = "idle" /\ parcels = <<>> /\ cloud_cover_perc = CloudCoverPerc
    /\ parcel_stats = <<>> /\ parcels_new_df = <<>>

-----------------------------------------------------------------------------
(***************************************************************************)
(* run_task (main.py:32-274) and the files of ./data.                      *)
(*                                                                         *)
(* Dates and tiles are numbered from 1: date i here is time_range[i-1],    *)
(* tile j is geom_df.iloc[j-1], and veg_indices[i] here is the code's      *)
(* veg_indices[i] of the same date.  A time stamp is the number of the     *)
(* date it was read for (download_s2_bands selects timestamp::date =       *)
(* s2_date); 0 stands for a local variable that is not bound yet.          *)
(***************************************************************************)
NumDates == 3
NumTiles == 2
Unbound  == 0

Dates == 1..NumDates
Tiles == 1..NumTiles

NoTile == [d |-> 0, t |-> 0]

\* A file name of ./data.  kind: "raw" <param>_<date>.tif, "10m"
\* <param>_<date>_10m.tif, "10m_10m" (a resampled file resampled again),
\* "idx" <index>-<date>-<tile>.tif, "vrt" <time_stamp>-<index>.vrt,
\* "comp" <time_stamp>-<index>.tif, "parcels" parcels.geojson.
File(kind, name, date, tile) ==
    [kind |-> kind, name |-> name, date |-> date, tile |-> tile]
RawBand(b, d)      == File("raw", b, d, 0)
Band10m(b, d)      == File("10m", b, d, 0)
IndexTile(v, d, t) == File("idx", v, d, t)
Vrt(ts, v)         == File("vrt", v, ts, 0)
Composite(ts, v)   == File("comp", v, ts, 0)
ParcelsFile        == File("parcels", "", 0, 0)

BandKinds == {"raw", "10m", "10m_10m"}

EmptyDir == [f \in {} |-> 0]

\* directory updates; the content of a file is the number of the tile
\* (band and index files) or of the date (composites, parcels.geojson) it
\* was made from, 0 for a file that was not made by this run from the
\* bands of one tile
Put(dir, files, content) ==
    [f \in DOMAIN dir \cup files |-> IF f \in files THEN content ELSE dir[f]]
PutIfAbsent(dir, files, content) ==
    [f \in DOMAIN dir \cup files |-> IF f \in DOMAIN dir THEN dir[f] ELSE content]
Remove(dir, files) == [f \in DOMAIN dir \ files |-> dir[f]]

\* what an earlier run can have left in ./data: nothing, the four index
\* rasters of the first tile of the first date, parcels.geojson, or both
LeftoverIndexTiles == {IndexTile(v, 1, 1) : v \in IndexSet}
LeftoverDirs ==
    {Put(EmptyDir, S, 0) :
        S \in {{}, LeftoverIndexTiles, {ParcelsFile},
               LeftoverIndexTiles \cup {ParcelsFile}}}
CwdChoices == {{}, {ParcelsFile}}

\* a step of the log: "indices" <tile>, "mosaic" and "upload" <position of
\* the index in veg_indices>,
\* "select" <number of parcels the query returned>, "present" <1 for
\* parcels_present = True, 0 for False>, "zonal" <parcels>, "df" <rows>
Event(op, arg) == [op |-> op, arg |-> arg]

RunIdle ==
    /\ pc = "idle" /\ i = 1 /\ j = 1 /\ data = EmptyDir /\ cwd = {}
    /\ time_stamp = Unbound /\ tile_id = NoTile
    /\ calc_parcel_stats = TRUE /\ error = "none" /\ trace = <<>>
    /\ table = <<>>

RunInit ==
    /\ pc = "start"
    /\ i = 1 /\ j = 1
    /\ data \in LeftoverDirs
    /\ cwd \in CwdChoices
    /\ time_stamp = Unbound
    /\ tile_id = NoTile
    /\ calc_parcel_stats \in BOOLEAN
    /\ error = "none"
    /\ trace = <<>>
    /\ table = <<>>

Crash(what) ==
    /\ pc' = "crashed"
    /\ error' = what

-----------------------------------------------------------------------------
\* main.py:87-109, tile geometries found
Start ==
    /\ pc = "start"
    /\ pc' = "tile"
    /\ UNCHANGED <<i, j, data, cwd, time_stamp, tile_id, calc_parcel_stats,
                   error, trace, table, pixelVars, parcelVars>>
    /\ UNCHANGED rasterVars

\* main.py:102-104, no tile geometry: the workflow is terminated
StartNoGeometries ==
    /\ pc = "start"
    /\ pc' = "terminated"
    /\ UNCHANGED <<i, j, data, cwd, time_stamp, tile_id, calc_parcel_stats,
                   error, trace, table, pixelVars, parcelVars>>
    /\ UNCHANGED rasterVars

\* download_s2_bands, no scene-classification record of the tile and date
\* (s2_processing.py:39, 70-72; main.py:146-147)
TileNoData ==
    /\ pc = "tile"
    /\ pc' = "guard"
    /\ UNCHANGED <<i, j, data, cwd, time_stamp, tile_id, calc_parcel_stats,
                   error, trace, table, pixelVars, parcelVars>>
    /\ UNCHANGED rasterVars

\* the bands before position p of band_names
BandsBefore(p) == {band_names[q] : q \in 1..(p - 1)}

\* s2_processing.py:62-68 for a set of bands: a band file is downloaded
\* unless a file of its name (parameter and date, no tile) exists
Download(dir, bands, date, tile) ==
    PutIfAbsent(dir, {RawBand(b, date) : b \in bands}, tile)

\* download_s2_bands with all five band records found, and main.py:153
TileDownload ==
    /\ pc = "tile"
    /\ data' = Download(data, BandSet, i, j)
    /\ tile_id' = [d |-> i, t |-> j]
    /\ time_stamp' = i
    /\ pc' = "resample"
    /\ UNCHANGED <<i, j, cwd, calc_parcel_stats, error, trace, table,
                   pixelVars, parcelVars>>
    /\ UNCHANGED rasterVars

\* download_s2_bands when the record of the optical band at position p is
\* absent: bands_df.iloc[0] raises IndexError (s2_processing.py:59) and
\* nothing in run_task catches it
TileMissingBand ==
    /\ pc = "tile"
    /\ \E p \in 2..Len(band_names) :
          data' = Download(data, BandsBefore(p), i, j)
    /\ Crash("IndexError at s2_processing.py:59")
    /\ UNCHANGED <<i, j, cwd, time_stamp, tile_id, calc_parcel_stats,
                   trace, table, pixelVars, parcelVars>>
    /\ UNCHANGED rasterVars

\* a stand-in for "no file" where a glob matched nothing
NoFile == File("none", "", 0, 0)
Pick(S) == IF S = {} THEN {NoFile} ELSE S

\* one matched file per band
Chosen(f1, f2, f3, f4, f5) ==
    [b \in BandSet |->
        CASE b = band_names[1] -> f1
          [] b = band_names[2] -> f2
          [] b = band_names[3] -> f3
          [] b = band_names[4] -> f4
          [] OTHER             -> f5]

\* the position in band_names of the first band whose glob matched nothing,
\* Len(band_names) + 1 when every glob matched
FirstMissing(sel) ==
    LET miss == {p \in 1..Len(band_names) : sel[band_names[p]] = NoFile}
    IN  IF miss = {} THEN Len(band_names) + 1
        ELSE CHOOSE p \in miss : \A q \in miss : p <= q

\* s2_processing.py:100-101: glob("*<band>*.tif"), any date, raw or resampled
ResampleInputs(dir, b) ==
    {f \in DOMAIN dir : f.kind \in BandKinds /\ f.name = b}

\* s2_processing.py:102: <input>_10m.tif
Suffix10m(f) ==
    File(IF f.kind = "raw" THEN "10m" ELSE "10m_10m", f.name, f.date, 0)

\* s2_processing.py:111-118 for the bands before position p: a resampled
\* file is made from its input unless a file of its name exists
Resampled(dir, sel, p) ==
    LET outs == {Suffix10m(sel[b]) : b \in BandsBefore(p)}
    IN  [f \in DOMAIN dir \cup outs |->
            IF f \in DOMAIN dir THEN dir[f]
            ELSE dir[sel[CHOOSE b \in BandsBefore(p) : Suffix10m(sel[b]) = f]]]

\* resample_s2_bands (main.py:158-159)
Resample ==
    /\ pc = "resample"
    /\ \E f1 \in Pick(ResampleInputs(data, band_names[1])),
          f2 \in Pick(ResampleInputs(data, band_names[2])),
          f3 \in Pick(ResampleInputs(data, band_names[3])),
          f4 \in Pick(ResampleInputs(data, band_names[4])),
          f5 \in Pick(ResampleInputs(data, band_names[5])) :
          LET sel == Chosen(f1, f2, f3, f4, f5)
              p   == FirstMissing(sel)
          IN  /\ data' = Resampled(data, sel, p)
              /\ IF p <= Len(band_names)
                 THEN Crash("IndexError at s2_processing.py:101")
                 ELSE pc' = "calc" /\ error' = error
    /\ UNCHANGED <<i, j, cwd, time_stamp, tile_id, calc_parcel_stats,
                   trace, table, pixelVars, parcelVars>>
    /\ UNCHANGED rasterVars

\* raster_calculations.py:33-35: glob("*<band>*<date>*10m.tif")
ReadInputs(dir, b, date) ==
    {f \in DOMAIN dir :
        f.kind \in {"10m", "10m_10m"} /\ f.name = b /\ f.date = date}

\* the tile whose bands were read, 0 when the five files are not the bands
\* of one tile
Origin(dir, sel) ==
    IF \A b \in BandSet : dir[sel[b]] = dir[sel["scene_class"]]
    THEN dir[sel["scene_class"]] ELSE 0

\* raster_calculations.py:110-139: each index raster is written unless a
\* file of its name exists
WriteIndexTilesMutant(dir, date, tile, content) ==
    Put(dir, {IndexTile(v, date, tile) : v \in IndexSet}, content)
WriteIndexTiles(dir, date, tile, content) ==
    PutIfAbsent(dir, {IndexTile(v, date, tile) : v \in IndexSet}, content)

\* calc_veg_indices (main.py:165-169): the band files are read and unlinked
\* (raster_calculations.py:30-39, 70), the index rasters are written
CalcVegIndices ==
    /\ pc = "calc"
    /\ \E f1 \in Pick(ReadInputs(data, band_names[1], i)),
          f2 \in Pick(ReadInputs(data, band_names[2], i)),
          f3 \in Pick(ReadInputs(data, band_names[3], i)),
          f4 \in Pick(ReadInputs(data, band_names[4], i)),
          f5 \in Pick(ReadInputs(data, band_names[5], i)) :
          LET sel == Chosen(f1, f2, f3, f4, f5)
              p   == FirstMissing(sel)
              rd  == {sel[b] : b \in BandsBefore(p)}
          IN  IF p <= Len(band_names)
              THEN /\ data' = Remove(data, rd)
                   /\ Crash("IndexError at raster_calculations.py:35")
                   /\ trace' = trace
              ELSE /\ data' = WriteIndexTiles(Remove(data, rd), i, j,
                                              Origin(data, sel))
                   /\ pc' = "remove"
                   /\ error' = error
                   /\ trace' = Append(trace, Event("indices", j))
    /\ UNCHANGED <<i, j, cwd, time_stamp, tile_id, calc_parcel_stats,
                   table, pixelVars, parcelVars>>
    /\ UNCHANGED rasterVars

\* main.py:173-176: the band files (surf_refl*, s2a_scene_class*) are removed
RemoveBandsMutant ==
    /\ pc = "remove"
    /\ data' = Remove(data, {f \in DOMAIN data :
                                f.kind \in BandKinds /\ f.name # "scene_class"})
    /\ pc' = "guard"
    /\ UNCHANGED <<i, j, cwd, time_stamp, tile_id, calc_parcel_stats,
                   error, trace, table, pixelVars, parcelVars>>
    /\ UNCHANGED rasterVars
RemoveBands ==
    /\ pc = "remove"
    /\ data' = Remove(data, {f \in DOMAIN data : f.kind \in BandKinds})
    /\ pc' = "guard"
    /\ UNCHANGED <<i, j, cwd, time_stamp, tile_id, calc_parcel_stats,
                   error, trace, table, pixelVars, parcelVars>>
    /\ UNCHANGED rasterVars

\* main.py:180-182: the tile rasters of one index and date
TileFiles(dir, v, date) ==
    {f \in DOMAIN dir : f.kind = "idx" /\ f.name = v /\ f.date = date}

\* main.py:185: the guard looks at the index at the position of the date
GuardHoldsMutant == j = NumTiles
GuardHolds == j = NumTiles /\ TileFiles(data, veg_indices[i], i) # {}

\* the guard fails: next tile, or the end of the tile loop
NextTile ==
    /\ pc = "guard"
    /\ ~GuardHolds
    /\ IF j < NumTiles
       THEN j' = j + 1 /\ pc' = "tile"
       ELSE j' = j /\ pc' = "purge"
    /\ UNCHANGED <<i, data, cwd, time_stamp, tile_id, calc_parcel_stats,
                   error, trace, table, pixelVars, parcelVars>>
    /\ UNCHANGED rasterVars

\* main.py:190-193 when no tile of the run has had data yet: time_stamp is
\* read before it is assigned
MosaicUnbound ==
    /\ pc = "guard"
    /\ GuardHolds
    /\ time_stamp = Unbound
    /\ Crash("UnboundLocalError at main.py:193")
    /\ UNCHANGED <<i, j, data, cwd, time_stamp, tile_id, calc_parcel_stats,
                   trace, table, pixelVars, parcelVars>>
    /\ UNCHANGED rasterVars

\* raster_calculations.py:153-173: a virtual mosaic and a composite for
\* every index that has tile rasters of the date (GDAL makes neither from an
\* empty list of inputs)
Mosaicked(dir, date, ts) ==
    LET has == {v \in IndexSet : TileFiles(dir, v, date) # {}}
    IN  Put(dir, {Vrt(ts, v) : v \in has} \cup {Composite(ts, v) : v \in has},
            date)

MosaicEvents == [v \in 1..Len(veg_indices) |-> Event("mosaic", v)]
UploadEvents == [v \in 1..Len(veg_indices) |-> Event("upload", v)]

\* mosaic_veg_indices and upload_veg_indices (main.py:190-206); the upload
\* raises IndexError on an index without a composite
MosaicAndUpload ==
    /\ pc = "guard"
    /\ GuardHolds
    /\ time_stamp # Unbound
    /\ data' = Mosaicked(data, i, time_stamp)
    /\ IF \A v \in IndexSet : TileFiles(data, v, i) # {}
       THEN /\ trace' = trace \o MosaicEvents \o UploadEvents
            /\ pc' = IF calc_parcel_stats THEN "parcel" ELSE "purge"
            /\ error' = error
       ELSE /\ trace' = trace \o MosaicEvents
            /\ Crash("IndexError at raster_calculations.py:194")
    /\ UNCHANGED <<i, j, cwd, time_stamp, tile_id, calc_parcel_stats,
                   table, pixelVars, parcelVars>>
    /\ UNCHANGED rasterVars

-----------------------------------------------------------------------------
\* the parcel query results tried in run_task: none, or one parcel
RunParcelSets == {<<>>} \cup ParcelsOfLen(1)

\* select_parcels (main.py:216-220; parcel_calculations.py:36-39): parcels
\* found and parcels.geojson not there yet
SelectParcelsPresent ==
    /\ pc = "parcel" /\ qpc = "idle"
    /\ ParcelsFile \notin DOMAIN data
    /\ \E ps \in RunParcelSets \ {<<>>} :
          /\ parcels' = ps
          /\ trace' = trace \o <<Event("select", Len(ps)), Event("present", 1)>>
    /\ data' = Put(data, {ParcelsFile}, i)
    /\ qpc' = "zonal"
    /\ UNCHANGED <<pc, i, j, cwd, time_stamp, tile_id, calc_parcel_stats,
                   error, table, pixelVars, cloud_cover_perc, parcel_stats,
                   parcels_new_df>>
    /\ UNCHANGED rasterVars

\* select_parcels returns parcels_present = False
\* (parcel_calculations.py:42-43; main.py:223-225)
SelectParcelsAbsentMutant ==
    /\ pc = "parcel" /\ qpc = "idle"
    /\ \E ps \in RunParcelSets :
          /\ ps = <<>> \/ ParcelsFile \in DOMAIN data
          /\ parcels' = ps
          /\ trace' = trace \o <<Event("select", Len(ps)), Event("present", 0)>>
    /\ qpc' = "zonal"
    /\ UNCHANGED <<pc, i, j, data, cwd, time_stamp, tile_id,
                   calc_parcel_stats, error, table, pixelVars,
                   cloud_cover_perc, parcel_stats, parcels_new_df>>
    /\ UNCHANGED rasterVars
SelectParcelsAbsent ==
    /\ pc = "parcel" /\ qpc = "idle"
    /\ \E ps \in RunParcelSets :
          /\ ps = <<>> \/ ParcelsFile \in DOMAIN data
          /\ trace' = trace \o <<Event("select", Len(ps)), Event("present", 0)>>
    /\ pc' = "purge"
    /\ UNCHANGED <<i, j, data, cwd, time_stamp, tile_id, calc_parcel_stats,
                   error, table, pixelVars, parcelVars>>
    /\ UNCHANGED rasterVars

\* calc_zonal_stats (parcel_calculations.py:65-100): the cloud-cover column
CalcZonalStats ==
    /\ qpc = "zonal"
    /\ IF /\ ParcelsFile \in DOMAIN data
          /\ \A v \in IndexSet : Composite(time_stamp, v) \in DOMAIN data
       THEN /\ parcel_stats' =
                  [p \in 1..Len(parcels) |->
                      CloudCover(parcels[p].count, parcels[p].nan)]
            /\ qpc' = "upload"
            /\ trace' = Append(trace, Event("zonal", Len(parcels)))
            /\ UNCHANGED <<pc, error>>
       ELSE /\ Crash("IndexError at parcel_calculations.py:70")
            /\ UNCHANGED <<parcel_stats, qpc, trace>>
    /\ UNCHANGED <<i, j, data, cwd, time_stamp, tile_id, calc_parcel_stats,
                   table, pixelVars, parcels, cloud_cover_perc,
                   parcels_new_df>>
    /\ UNCHANGED rasterVars

\* upload_parcels_df (parcel_calculations.py:119-148)
UploadParcelsDf ==
    /\ qpc = "upload"
    /\ LET df == Filter(Rows(parcels, parcel_stats, time_stamp, tile_id),
                        cloud_cover_perc)
       IN  /\ parcels_new_df' = df
           /\ table' = IF df # <<>> THEN table \o df ELSE table
           /\ trace' = Append(trace, Event("df", Len(df)))
    /\ qpc' = "done"
    /\ UNCHANGED <<pc, i, j, data, cwd, time_stamp, tile_id,
                   calc_parcel_stats, error, pixelVars, parcels,
                   cloud_cover_perc, parcel_stats>>
    /\ UNCHANGED rasterVars

\* main.py:257-265
ParcelsDone ==
    /\ pc = "parcel" /\ qpc = "done"
    /\ pc' = "purge"
    /\ qpc' = "idle"
    /\ parcels' = <<>> /\ parcel_stats' = <<>> /\ parcels_new_df' = <<>>
    /\ UNCHANGED <<i, j, data, cwd, time_stamp, tile_id, calc_parcel_stats,
                   error, trace, table, pixelVars, cloud_cover_perc>>
    /\ UNCHANGED rasterVars

-----------------------------------------------------------------------------
\* main.py:268-271: os.remove(f) takes f, a bare name of os.listdir("./data"),
\* relative to the working directory.  Every name is there: those files are
\* removed and ./data keeps its files.
PurgeOk ==
    /\ pc = "purge"
    /\ DOMAIN data \subseteq cwd
    /\ cwd' = cwd \ DOMAIN data
    /\ IF i < NumDates
       THEN i' = i + 1 /\ j' = 1 /\ pc' = "tile" /\ trace' = <<>>
       ELSE i' = i /\ j' = j /\ pc' = "done" /\ trace' = trace
    /\ UNCHANGED <<data, time_stamp, tile_id, calc_parcel_stats, error,
                   table, pixelVars, parcelVars>>
    /\ UNCHANGED rasterVars

\* some name of ./data is not in the working directory: FileNotFoundError,
\* after the names listed before it were removed from the working directory
PurgeFails ==
    /\ pc = "purge"
    /\ ~(DOMAIN data \subseteq cwd)
    /\ \E removed \in SUBSET (DOMAIN data \cap cwd) : cwd' = cwd \ removed
    /\ Crash("FileNotFoundError at main.py:270")
    /\ UNCHANGED <<i, j, data, time_stamp, tile_id, calc_parcel_stats,
                   trace, table, pixelVars, parcelVars>>
    /\ UNCHANGED rasterVars

-----------------------------------------------------------------------------
-----------------------------------------------------------------------------
(***************************************************************************)
(* The tile rasters of one index and one date, pixel by pixel              *)
(* (mosaic_veg_indices, raster_calculations.py:142-173, and the            *)
(* zonal_stats call of calc_zonal_stats, parcel_calculations.py:73-77).    *)
(*                                                                         *)
(* The composite grid is a strip of pixels.  A tile raster either does not *)
(* cover a pixel, or holds -9999 there, or holds an index value; tile t    *)
(* holds the value t, so that the tile a composite value came from can be  *)
(* told.  gdal.BuildVRT lays the sources over each other in the order of   *)
(* its source list, and a source pixel equal to srcNodata is left out;     *)
(* where no source contributes the mosaic holds VRTNodata.  The source     *)
(* list is the result of glob2.glob, which lists the directory in the      *)
(* order of the file system, so every order of the tiles is possible.      *)
(* zonal_stats masks the pixels equal to its nodata argument and the       *)
(* not-a-number pixels, counts the others ("count"), counts the            *)
(* not-a-number pixels ("nan") and averages the unmasked ones.             *)
(***************************************************************************)
MaxRasterPixels == 2
RasterPixels == 1..MaxRasterPixels

\* the pixel lies outside the footprint of the tile
Outside == [k |-> "out", n |-> 0, d |-> 1]

\* what tile t holds at a pixel: 0 outside its footprint, 1 no-data, 2 a value
Cell(t, c) == IF c = 0 THEN Outside ELSE IF c = 1 THEN NoData ELSE Whole(t)

TileRasters ==
    {[t \in Tiles |-> [p \in RasterPixels |-> Cell(t, s[t][p])]] :
        s \in [Tiles -> [RasterPixels -> 0..2]]}

\* all orders in which the glob can list the tile rasters
GlobOrders ==
    {f \in [1..NumTiles -> Tiles] : \A a, b \in 1..NumTiles : f[a] = f[b] => a = b}

\* srcNodata = -9999 (raster_calculations.py:166): the sources that
\* contribute to pixel p, as positions in the source list
ContributingMutant(files, ras, p) ==
    {k \in 1..Len(files) : ras[files[k]][p] # Outside}
Contributing(files, ras, p) ==
    {k \in 1..Len(files) : ras[files[k]][p] \notin {Outside, NoData}}

Highest(S) == CHOOSE k \in S : \A m \in S : m <= k

\* VRTNodata = -9999 (raster_calculations.py:167); gdal.Translate copies the
\* mosaic into the GeoTIFF (raster_calculations.py:170-173)
MosaicPixel(files, ras, p) ==
    LET c == Contributing(files, ras, p)
    IN  IF c = {} THEN NoData ELSE ras[files[Highest(c)]][p]

\* nodata = np.nan (parcel_calculations.py:75): the value zonal_stats masks
ZonalNoData == NaN

Masked(x) == Equal(x, ZonalNoData) \/ IsNaN(x)

RECURSIVE SumOf(_, _)
SumOf(ras, S) ==
    IF S = {} THEN Whole(0)
    ELSE LET p == CHOOSE q \in S : TRUE
         IN  Add(ras[p], SumOf(ras, S \ {p}))

\* stats = ["mean", "std", "count", "nan"], all_touched = False
\* (parcel_calculations.py:73-77); "used" are the pixels that enter the
\* mean and the standard deviation
ZonalStats(ras, z) ==
    LET used == {p \in z : ~Masked(ras[p])}
    IN  [used  |-> used,
         count |-> Cardinality(used),
         nan   |-> Cardinality({p \in z : IsNaN(ras[p])}),
         mean  |-> IF used = {} THEN NaN
                   ELSE Div(SumOf(ras, used), Whole(Cardinality(used)))]

NoRaster == [p \in {} |-> NoData]
NoStats  == [used |-> {}, count |-> 0, nan |-> 0, mean |-> NaN]

RasterIdle ==
    /\ rpc = "idle" /\ tile_ras = <<>> /\ in_files = <<>>
    /\ composite = NoRaster /\ zone = {} /\ zone_stats = NoStats

RasterInit ==
    /\ rpc = "tiles"
    /\ tile_ras \in TileRasters
    /\ in_files \in GlobOrders
    /\ composite = NoRaster
    /\ zone = {}
    /\ zone_stats = NoStats

\* mosaic_veg_indices for one index (raster_calculations.py:153-173)
BuildMosaic ==
    /\ rpc = "tiles"
    /\ composite' = [p \in RasterPixels |-> MosaicPixel(in_files, tile_ras, p)]
    /\ rpc' = "composite"
    /\ UNCHANGED <<tile_ras, in_files, zone, zone_stats>>
    /\ UNCHANGED <<runVars, pixelVars, parcelVars, table>>

\* zonal_stats for one parcel on the composite
\* (parcel_calculations.py:69-77)
ZonalStatistics ==
    /\ rpc = "composite"
    /\ \E z \in SUBSET RasterPixels :
          /\ zone' = z
          /\ zone_stats' = ZonalStats(composite, z)
    /\ rpc' = "stats"
    /\ UNCHANGED <<tile_ras, in_files, composite>>
    /\ UNCHANGED <<runVars, pixelVars, parcelVars, table>>

Init == RunInit /\ PixelIdle /\ ParcelIdle /\ RasterIdle

Next ==
    \/ Start
    \/ StartNoGeometries
    \/ TileNoData
    \/ TileDownload
    \/ TileMissingBand
    \/ Resample
    \/ CalcVegIndices
    \/ RemoveBands
    \/ NextTile
    \/ MosaicUnbound
    \/ MosaicAndUpload
    \/ SelectParcelsPresent
    \/ SelectParcelsAbsent
    \/ CalcZonalStats
    \/ UploadParcelsDf
    \/ ParcelsDone
    \/ PurgeOk
    \/ PurgeFails

Spec == Init /\ [][Next]_vars

\* calc_veg_indices on every pixel of the bounded input sets
InitPixel == PixelInit /\ RunIdle /\ ParcelIdle /\ RasterIdle

SpecPixel == InitPixel /\ [][PixelNext]_vars

\* the parcel aggregation of the first date, right after select_parcels
\* returned parcels_present = True, on every parcel set and threshold
InitParcel ==
    /\ pc = "parcel" /\ i = 1 /\ j = NumTiles
    /\ data = Put(Mosaicked(WriteIndexTiles(EmptyDir, 1, 1, 1), 1, 1),
                  {ParcelsFile}, 1)
    /\ cwd = {}
    /\ time_stamp = 1
    /\ tile_id = [d |-> 1, t |-> 1]
    /\ calc_parcel_stats = TRUE
    /\ error = "none"
    /\ trace = <<>>
    /\ table = <<>>
    /\ PixelIdle
    /\ qpc = "zonal"
    /\ parcels \in ParcelSets
    /\ cloud_cover_perc \in Thresholds
    /\ parcel_stats = <<>>
    /\ parcels_new_df = <<>>
    /\ RasterIdle

NextParcel == CalcZonalStats \/ UploadParcelsDf

SpecParcel == InitParcel /\ [][NextParcel]_vars

\* calc_veg_indices called for any tile of any date on a directory that
\* holds the resampled bands of that tile and any subset of the four index
\* rasters of that tile, left by an earlier call
InitWriter ==
    /\ pc = "calc"
    /\ i \in Dates /\ j \in Tiles
    /\ \E S \in SUBSET {IndexTile(v, i, j) : v \in IndexSet} :
          data = Put(Put(EmptyDir,
                         {RawBand(b, i) : b \in BandSet}
                             \cup {Band10m(b, i) : b \in BandSet}, j),
                     S, 0)
    /\ cwd = {}
    /\ time_stamp = i
    /\ tile_id = [d |-> i, t |-> j]
    /\ calc_parcel_stats \in BOOLEAN
    /\ error = "none"
    /\ trace = <<>>
    /\ table = <<>>
    /\ PixelIdle
    /\ ParcelIdle
    /\ RasterIdle

NextWriter == CalcVegIndices \/ RemoveBands

SpecWriter == InitWriter /\ [][NextWriter]_vars

\* the tile rasters of one index and date: every footprint, every no-data
\* pattern, every order of the source list
InitRaster == RasterInit /\ RunIdle /\ PixelIdle /\ ParcelIdle

NextRaster == BuildMosaic

SpecRaster == InitRaster /\ [][NextRaster]_vars

\* the composite of one index and date, built from tile rasters that the
\* glob listed in the order of their numbers, before zonal_stats reads it
InitZonal ==
    /\ rpc = "composite"
    /\ tile_ras \in TileRasters
    /\ in_files = [k \in 1..NumTiles |-> k]
    /\ composite = [p \in RasterPixels |-> MosaicPixel(in_files, tile_ras, p)]
    /\ zone = {}
    /\ zone_stats = NoStats
    /\ RunIdle /\ PixelIdle /\ ParcelIdle

NextZonal == ZonalStatistics

SpecZonal == InitZonal /\ [][NextZonal]_vars

-----------------------------------------------------------------------------
(***************************************************************************)
(* Properties.                                                             *)
(***************************************************************************)
Range(seq) == {seq[p] : p \in 1..Len(seq)}

DividingIndices == {"ndvi", "ndre", "ci_red_edge"}

\* C1 (SpecPixel): once the scene-classification band is masked, a class
\* code in 1..7 or >= 10 has mask value 1, a class code < 1 or strictly
\* between 7 and 10 has mask value not-a-number, and the mask holds no other
\* value.
C1_SceneClassMask ==
    ppc \in {"masked", "scaled", "indices", "write"} =>
        LET c == dn["scene_class"]
            m == s2_dict["scene_class"]
        IN  /\ (c \in 1..7 \/ c >= 10) => m = Whole(1)
            /\ (c < 1 \/ (c > 7 /\ c < 10)) => IsNaN(m)
            /\ m \in {Whole(1), NaN}

\* a pixel of class 7, the last class of 1..7, has been masked to 1
C1_Witness ==
    /\ ppc = "masked"
    /\ dn["scene_class"] = 7
    /\ s2_dict["scene_class"] = Whole(1)

\* C2 (SpecPixel): of each of the four index values handed to the raster
\* writer, one that is not-a-number, infinite, below -10 or above 10 is
\* written as -9999 and one inside [-10, 10] is written unchanged.
C2_ClampToNoData ==
    ppc = "write" =>
        \A v \in IndexSet :
            LET x == veg_ind_dict[v]
                y == veg_ind_ras[v]
            IN  IF \/ IsNaN(x) \/ IsInf(x)
                   \/ Less(x, Whole(-10)) \/ Greater(x, Whole(10))
                THEN y = Whole(-9999)
                ELSE y = x

\* one pixel with an infinite index written as -9999, an index below -10
\* written as -9999 and an index equal to 10 written unchanged
C2_Witness ==
    /\ ppc = "write"
    /\ \E v \in IndexSet :
          veg_ind_dict[v] = PosInf /\ veg_ind_ras[v] = Whole(-9999)
    /\ \E v \in IndexSet :
          /\ IsFinite(veg_ind_dict[v]) /\ Less(veg_ind_dict[v], Whole(-10))
          /\ veg_ind_ras[v] = Whole(-9999)

\* an index exactly 10 is written as 10
C2_WitnessBoundary ==
    /\ ppc = "write"
    /\ \E v \in IndexSet :
          veg_ind_dict[v] = Whole(10) /\ veg_ind_ras[v] = Whole(10)

RowIds(df) == {df[r].id : r \in 1..Len(df)}

C4_PersistedBelowThreshold ==
    \A r \in 1..Len(table) :
        Less(table[r].cloud_cover_perc, Whole(cloud_cover_perc))

\* C5 (Spec): the purge step of a date leaves ./data empty and removes no
\* file outside ./data.
C5_PurgeEmptiesData ==
    [][pc = "purge" => (DOMAIN data' = {} /\ cwd' = cwd)]_vars

\* the steps of the current date between the last index calculation and
\* the end of the tile loop
AfterLastTile ==
    LET at == {p \in 1..Len(trace) : trace[p].op = "indices"}
        last == CHOOSE p \in at : \A q \in at : q <= p
    IN  SubSeq(trace, last + 1, Len(trace))

CountOp(seq, e) == Cardinality({p \in 1..Len(seq) : seq[p] = e})

\* at the end of the tile loop of a date that produced index rasters: the
\* mosaic ran once per index, after the last tile; the parcel step ran
\* exactly when calc_parcel_stats is set
C6_DateSteps ==
    (pc = "purge" /\ \E e \in Range(trace) : e.op = "indices") =>
        /\ \A v \in 1..Len(veg_indices) :
              /\ CountOp(trace, Event("mosaic", v)) = 1
              /\ CountOp(AfterLastTile, Event("mosaic", v)) = 1
        /\ (\E e \in Range(trace) : e.op = "select") <=> calc_parcel_stats

\* C6 (Spec): the steps above run for every date of the range: the tile
\* loop of a date ends as described, and a date that produced index rasters
\* is followed by the next date of the range, if there is one, instead of
\* the run ending in its end-of-date purge.
C6_EveryDateProcessed ==
    /\ C6_DateSteps
    /\ (/\ pc = "crashed"
        /\ error = "FileNotFoundError at main.py:270"
        /\ \E e \in Range(trace) : e.op = "indices")
          => i = NumDates

\* C7 (Spec): a tile whose scene-classification record exists but one of
\* whose band records is absent is skipped; the run does not end with the
\* exception of the band lookup.
C7_MissingBandSkipsTile ==
    ~(pc = "crashed" /\ error = "IndexError at s2_processing.py:59")

\* C8 (Spec): for an index with no tile raster of the current date, the
\* mosaic and the upload have not run, no composite of the date's tiles
\* exists, and no error of the mosaic step was raised.
C8_NoTilesNoMosaic ==
    \A v \in 1..Len(veg_indices) :
        TileFiles(data, veg_indices[v], i) = {} =>
            /\ Event("mosaic", v) \notin Range(trace)
            /\ Event("upload", v) \notin Range(trace)
            /\ \A f \in DOMAIN data :
                  (f.kind \in {"vrt", "comp"} /\ f.name = veg_indices[v])
                      => data[f] # i
            /\ error \notin {"UnboundLocalError at main.py:193",
                             "IndexError at raster_calculations.py:194"}

\* the tile loop of a date ended with no tile raster at all: the mosaic
\* step was skipped
C8_Witness ==
    /\ pc = "purge"
    /\ error = "none"
    /\ \A v \in IndexSet : TileFiles(data, v, i) = {}
    /\ trace = <<>>

\* C9 as stated (SpecParcel): the cloud-cover percentage is
\* 100 * nodata / (valid + nodata), 0 whenever the no-data count is 0 and
\* 100 whenever the valid count is 0, for all non-negative counts.
C9_Original ==
    qpc \in {"upload", "done"} =>
        \A p \in 1..Len(parcels) :
            LET cc == parcel_stats[p]
                valid == parcels[p].count
                nodata == parcels[p].nan
            IN  /\ IsFinite(cc)
                /\ cc.n * (valid + nodata) = 100 * nodata * cc.d
                /\ nodata = 0 => cc = Whole(0)
                /\ valid = 0 => cc = Whole(100)

\* C9 (SpecParcel), amended: the above for valid + nodata > 0; with both
\* counts 0 the percentage is not-a-number.
C9_CloudCover ==
    qpc \in {"upload", "done"} =>
        \A p \in 1..Len(parcels) :
            LET cc == parcel_stats[p]
                valid == parcels[p].count
                nodata == parcels[p].nan
            IN  IF valid + nodata > 0
                THEN /\ IsFinite(cc)
                     /\ cc.n * (valid + nodata) = 100 * nodata * cc.d
                     /\ nodata = 0 => cc = Whole(0)
                     /\ valid = 0 => cc = Whole(100)
                ELSE IsNaN(cc)

\* a fully no-data parcel at 100 beside a parcel without pixels at
\* not-a-number
C9_Witness ==
    /\ qpc = "upload"
    /\ \E p, q \in 1..Len(parcels) :
          /\ parcels[p].count = 0 /\ parcels[p].nan > 0
          /\ parcel_stats[p] = Whole(100)
          /\ parcels[q].count = 0 /\ parcels[q].nan = 0
          /\ IsNaN(parcel_stats[q])

IsZero(x) == IsFinite(x) /\ x.n = 0

\* C10 as stated (SpecPixel): a zero denominator in NDVI, NDRE or
\* CI_RedEdge gives not-a-number.
C10_Original ==
    ppc \in {"indices", "write"} =>
        \A v \in DividingIndices :
            IsZero(Denominator(v, s2_dict)) => IsNaN(veg_ind_dict[v])

\* C10 (SpecPixel), amended: a zero denominator gives not-a-number for 0/0
\* and the infinity with the sign of x for x/0, x # 0; either is written as
\* -9999.
C10_ZeroDenominator ==
    ppc \in {"indices", "write"} =>
        \A v \in DividingIndices :
            LET x == Numerator(v, s2_dict)
                r == veg_ind_dict[v]
            IN  IsZero(Denominator(v, s2_dict)) =>
                    /\ Sign(x) = 0 => IsNaN(r)
                    /\ Sign(x) > 0 => r = PosInf
                    /\ Sign(x) < 0 => r = NegInf
                    /\ ppc = "write" => veg_ind_ras[v] = Whole(-9999)

\* CI_RedEdge with R705 = 0 and R783 > 0 is +infinity, while NDVI of the
\* same pixel is 0/0, not-a-number
C10_Witness ==
    /\ ppc = "write"
    /\ IsZero(s2_dict["surf_refl_705nm"])
    /\ Sign(s2_dict["surf_refl_783nm"]) > 0
    /\ veg_ind_dict["ci_red_edge"] = PosInf
    /\ IsZero(Denominator("ndvi", s2_dict))
    /\ IsNaN(veg_ind_dict["ndvi"])


\* C11 (SpecWriter): a call of calc_veg_indices for a date and tile leaves
\* every index raster of that date and tile that already exists as it is,
\* and writes every one that is absent, with the content computed from the
\* bands it read; this holds for each of the four indices on its own.
C11_WriteOnlyIfAbsent ==
    [][(pc = "calc" /\ pc' = "remove") =>
          \A v \in IndexSet :
              LET f == IndexTile(v, i, j)
              IN  /\ f \in DOMAIN data'
                  /\ f \in DOMAIN data => data'[f] = data[f]
                  /\ f \notin DOMAIN data => data'[f] = j]_vars

\* one index raster was kept from before the call and another one was
\* written by it
C11_Witness ==
    /\ pc = "remove"
    /\ \E v, w \in IndexSet :
          /\ data[IndexTile(v, i, j)] = 0
          /\ data[IndexTile(w, i, j)] = j

\* the log seq holds the step op with the argument arg
Logged(seq, op, arg) ==
    \E k \in 1..Len(seq) : seq[k].op = op /\ seq[k].arg = arg

\* C12 (Spec): within a date on which the parcel query returned no parcel,
\* select_parcels has returned parcels_present = False, neither
\* calc_zonal_stats nor upload_parcels_df runs, and no step changes the
\* persistent table.
C12_EmptySelection ==
    [][Logged(trace', "select", 0) =>
          /\ Logged(trace', "present", 0)
          /\ ~Logged(trace', "present", 1)
          /\ \A e \in Range(trace') : e.op \notin {"zonal", "df"}
          /\ qpc' = "idle"
          /\ table' = table]_vars

\* the composites of a date were uploaded, the parcel query returned
\* nothing and the run went on to the purge
C12_Witness ==
    /\ pc = "purge"
    /\ Logged(trace, "select", 0)
    /\ Logged(trace, "upload", 1)

\* the tiles whose footprint covers pixel p
Covering(p) == {t \in Tiles : tile_ras[t][p] # Outside}

\* the position of tile t in the source list
Position(t) == CHOOSE k \in 1..Len(in_files) : in_files[k] = t

\* C13 as stated (SpecRaster): the composite reproduces the one tile that
\* covers a pixel, and where several tiles cover a pixel it holds the value
\* of the tile with the highest tile-sequence-number, -9999 included.
C13_Original ==
    rpc = "composite" =>
        \A p \in RasterPixels :
            Covering(p) # {} =>
                composite[p] = tile_ras[Highest(Covering(p))][p]

\* C13 (SpecRaster): the composite reproduces the one tile that covers a
\* pixel; where several tiles cover a pixel it holds the value of the tile
\* that comes last in the source list among those whose value there is not
\* -9999, and it holds -9999 exactly where no tile has another value.
C13_Mosaic ==
    rpc = "composite" =>
        \A p \in RasterPixels :
            /\ \A t \in Tiles : Covering(p) = {t} => composite[p] = tile_ras[t][p]
            /\ composite[p] = NoData <=>
                   \A t \in Tiles : tile_ras[t][p] \in {Outside, NoData}
            /\ composite[p] # NoData =>
                   \E t \in Tiles :
                       /\ composite[p] = tile_ras[t][p]
                       /\ \A u \in Tiles :
                              Position(u) > Position(t) =>
                                  tile_ras[u][p] \in {Outside, NoData}

\* a pixel covered by two tiles, where the tile listed last holds -9999 and
\* the composite holds the value of the other tile
C13_Witness ==
    /\ rpc = "composite"
    /\ \E p \in RasterPixels, t, u \in Tiles :
          /\ Position(u) = Len(in_files) /\ t # u
          /\ tile_ras[u][p] = NoData
          /\ tile_ras[t][p] = Whole(t)
          /\ composite[p] = Whole(t)

\* the value of an index is one the clamp turns into -9999
Unwritable(x) ==
    IsNaN(x) \/ IsInf(x) \/ Less(x, Whole(-10)) \/ Greater(x, Whole(10))

\* C14 as stated (SpecPixel): a pixel is -9999 in one of the four index
\* rasters of a call exactly when it is -9999 in each of the other three.
C14_Original ==
    ppc = "write" =>
        \A v, w \in IndexSet :
            veg_ind_ras[v] = NoData <=> veg_ind_ras[w] = NoData

\* C14 (SpecPixel): a pixel whose class code is masked is -9999 in all four
\* index rasters of a call; a pixel whose class code is valid is -9999 in
\* the raster of an index exactly when the value of that index itself is
\* not-a-number, infinite or outside [-10, 10], whatever the other three
\* indices are.
C14_NoDataPerIndex ==
    ppc = "write" =>
        /\ IsNaN(s2_dict["scene_class"]) =>
               \A v \in IndexSet : veg_ind_ras[v] = NoData
        /\ s2_dict["scene_class"] = Whole(1) =>
               \A v \in IndexSet :
                   veg_ind_ras[v] = NoData <=>
                       Unwritable(VegIndices(
                           [b \in BandSet |->
                               Num(dn[b], QuantificationValue)])[v])

\* a pixel of a valid class with a zero 705 nm band: -9999 in the
\* CI_RedEdge raster, a value in the NDVI and WDVI rasters
C14_Witness ==
    /\ ppc = "write"
    /\ s2_dict["scene_class"] = Whole(1)
    /\ dn["surf_refl_705nm"] = 0
    /\ veg_ind_ras["ci_red_edge"] = NoData
    /\ veg_ind_ras["ndvi"] # NoData
    /\ veg_ind_ras["wdvi"] # NoData

\* a pixel of a masked class, -9999 in all four rasters
C14_WitnessMasked ==
    /\ ppc = "write"
    /\ IsNaN(s2_dict["scene_class"])
    /\ \A b \in OpticalBands : dn[b] > 0
    /\ \A v \in IndexSet : veg_ind_ras[v] = NoData

\* C15 (SpecZonal): a pixel of the parcel that holds -9999 in the composite
\* is left out of the pixels that enter the parcel's mean and standard
\* deviation, is not counted as a valid pixel and is counted as a no-data
\* pixel in the counts the cloud-cover percentage is computed from.
C15_NoDataPixelsCounted ==
    rpc = "stats" =>
        LET nd == {p \in zone : composite[p] = NoData}
        IN  /\ zone_stats.used \cap nd = {}
            /\ zone_stats.count = Cardinality(zone \ nd)
            /\ zone_stats.nan = Cardinality(nd)

\* C16 (Spec): a run that started with an empty scratch directory (no file
\* in ./data is left from before the run) and in which every band query
\* returned a band does not end in an exception, so that it goes on through
\* the dates and tiles to the "Workflow successfully executed" step.
C16_CleanRunCompletes ==
    (pc = "crashed" /\ \A f \in DOMAIN data : data[f] # 0) =>
        error = "IndexError at s2_processing.py:59"

\* the raw and resampled band files in ./data
BandFiles == {f \in DOMAIN data : f.kind \in BandKinds}

C18_StampOfThisDate ==
    /\ error # "UnboundLocalError at main.py:193"
    /\ (Logged(trace, "mosaic", 1) \/ pc = "parcel") =>
           /\ time_stamp = i
           /\ tile_id # NoTile /\ tile_id.d = i
    /\ pc = "guard" =>
           \A v, w \in IndexSet :
               TileFiles(data, v, i) = {} <=> TileFiles(data, w, i) = {}

\* C19 (Spec): on a date whose parcel query returned at least one parcel,
\* select_parcels has returned parcels_present = True and parcels.geojson
\* holds the selection of that date.
C19_ParcelsOfThisDate ==
    (\E k \in 1..Len(trace) : trace[k].op = "select" /\ trace[k].arg > 0) =>
        /\ Logged(trace, "present", 1)
        /\ ParcelsFile \in DOMAIN data
        /\ data[ParcelsFile] = i
=============================================================================
